---- MODULE Spec2Model ----
(***************************************************************************)
(* Model of the real-estate dashboard (src/src/App.jsx): the record store  *)
(* (deals, units, financials), the filter selection, page navigation, the  *)
(* CSV import, and the derived values the pages compute from the store     *)
(* (filteredDeals, calculateKPIs, noiData, unitMix, portfolioData, the      *)
(* filter choices and the metrics of the deal-detail page).                *)
(***************************************************************************)
EXTENDS Integers, Sequences, FiniteSets, TLC

VARIABLES deals, units, financials, filters, currentPage, selectedDeal, pending

vars == <<deals, units, financials, filters, currentPage, selectedDeal, pending>>

(***************************************************************************)
(* Bounds of the model.                                                    *)
(***************************************************************************)
\* longest deals file / deal collection drawn
MaxDeals == 2
\* longest units file / unit collection drawn
MaxUnits == 3
\* longest financials file / financial collection drawn
MaxFinancials == 2
\* CSV imports that may be in flight at once
MaxPending == 1
\* longest unit collection drawn for the deal-detail derivations
MaxDetailUnits == 2

(***************************************************************************)
(* JavaScript values.  Every field value is a record of one shape so that  *)
(* values of different JavaScript types can be compared: t is the type     *)
(* tag, n/d a rational number (d > 0, lowest terms), s a string.           *)
(***************************************************************************)
RECURSIVE Gcd(_, _)
Gcd(a, b) == IF b = 0 THEN a ELSE Gcd(b, a % b)

Abs(x) == IF x < 0 THEN -x ELSE x

Rat(n, d) ==
    LET g == Gcd(Abs(n), Abs(d))
        sg == IF d < 0 THEN -1 ELSE 1
    IN  [t |-> "number", n |-> sg * (n \div g), d |-> sg * (d \div g), s |-> ""]

Num(n) == [t |-> "number", n |-> n, d |-> 1, s |-> ""]
Str(s) == [t |-> "string", n |-> 0, d |-> 1, s |-> s]
Undefined == [t |-> "undefined", n |-> 0, d |-> 1, s |-> ""]
Null == [t |-> "null", n |-> 0, d |-> 1, s |-> ""]
NaN == [t |-> "NaN", n |-> 0, d |-> 1, s |-> ""]
Infinity == [t |-> "Infinity", n |-> 1, d |-> 1, s |-> ""]
NegInfinity == [t |-> "Infinity", n |-> -1, d |-> 1, s |-> ""]

\* ToBoolean: what `v || 0`, `filter(r => r.deal_id)` and `!deal` test
Truthy(v) ==
    CASE v.t = "number" -> v.n # 0
      [] v.t = "string" -> v.s # ""
      [] v.t = "Infinity" -> TRUE
      [] OTHER -> FALSE

\* ToNumber on the values a numeric column can hold
ToNumber(v) ==
    CASE v.t = "number" -> v
      [] v.t = "Infinity" -> v
      [] v.t = "null" -> Num(0)
      [] OTHER -> NaN

\* v || 0
OrZero(v) == IF Truthy(v) THEN v ELSE Num(0)

\* a + b on numeric operands (number, null, undefined, NaN)
JsAdd(a, b) ==
    LET x == ToNumber(a)
        y == ToNumber(b)
    IN  IF x.t = "NaN" \/ y.t = "NaN" THEN NaN
        ELSE IF x.t = "Infinity" /\ y.t = "Infinity"
             THEN (IF x.n = y.n THEN x ELSE NaN)
        ELSE IF x.t = "Infinity" THEN x
        ELSE IF y.t = "Infinity" THEN y
        ELSE Rat(x.n * y.d + y.n * x.d, x.d * y.d)

\* -a
JsNeg(a) ==
    LET x == ToNumber(a)
    IN  IF x.t = "NaN" THEN NaN
        ELSE IF x.t = "Infinity" THEN [x EXCEPT !.n = -x.n]
        ELSE Rat(-x.n, x.d)

\* a - b
JsSub(a, b) == JsAdd(a, JsNeg(b))

\* a * k for an integer literal k > 0
JsMulInt(a, k) ==
    LET x == ToNumber(a)
    IN  IF x.t = "NaN" THEN NaN
        ELSE IF x.t = "Infinity" THEN x
        ELSE Rat(x.n * k, x.d)

\* a / b
JsDiv(a, b) ==
    LET x == ToNumber(a)
        y == ToNumber(b)
    IN  IF x.t = "NaN" \/ y.t = "NaN" THEN NaN
        ELSE IF x.t = "Infinity" /\ y.t = "Infinity" THEN NaN
        ELSE IF x.t = "Infinity"
             THEN (IF y.n < 0 THEN [x EXCEPT !.n = -x.n] ELSE x)
        ELSE IF y.t = "Infinity" THEN Num(0)
        ELSE IF y.n = 0
             THEN (IF x.n = 0 THEN NaN
                   ELSE IF x.n > 0 THEN Infinity ELSE NegInfinity)
        ELSE Rat(x.n * y.d, x.d * y.n)

\* a > 0
JsGtZero(a) ==
    LET x == ToNumber(a)
    IN  IF x.t = "NaN" THEN FALSE ELSE x.n > 0

(***************************************************************************)
(* Strings are compared by UTF-16 code units (period labels in orderBy).   *)
(***************************************************************************)
CodeUnits(s) ==
    CASE s = "2023-Q4"  -> <<50, 48, 50, 51, 45, 81, 52>>
      [] s = "2024-Q1"  -> <<50, 48, 50, 52, 45, 81, 49>>
      [] s = "2024-Q10" -> <<50, 48, 50, 52, 45, 81, 49, 48>>
      [] s = "2024-Q2"  -> <<50, 48, 50, 52, 45, 81, 50>>

RECURSIVE LexLess(_, _)
LexLess(a, b) ==
    IF b = <<>> THEN FALSE
    ELSE IF a = <<>> THEN TRUE
    ELSE IF Head(a) # Head(b) THEN Head(a) < Head(b)
    ELSE LexLess(Tail(a), Tail(b))

\* value > other on two strings
StrGreater(a, b) == LexLess(CodeUnits(b), CodeUnits(a))

(***************************************************************************)
(* Records: one row of a parsed CSV (Papa.parse with header: true and      *)
(* dynamicTyping: true).  A numeric cell is a number, an empty cell null,  *)
(* a column the file lacks undefined; text columns stay strings.           *)
(***************************************************************************)
Deal(id, name, date, tu, pp, rb, mv, da, st, pt, loc) ==
    [deal_id |-> id, deal_name |-> name, acquisition_date |-> date,
     total_units |-> tu, purchase_price |-> pp, renovation_budget |-> rb,
     market_value |-> mv, debt_amount |-> da,
     status |-> st, property_type |-> pt, location |-> loc]

Unit(id, did, no, bed, bath, sqft, cr, mr, occ) ==
    [unit_id |-> id, deal_id |-> did, unit_number |-> no, bedrooms |-> bed,
     bathrooms |-> bath, sq_ft |-> sqft, current_rent |-> cr,
     market_rent |-> mr, occupancy_status |-> occ]

Financial(id, did, per, gr, ox, noi, cx, ds) ==
    [financial_id |-> id, deal_id |-> did, period |-> per, gross_rent |-> gr,
     operating_expenses |-> ox, noi |-> noi, capex |-> cx, debt_service |-> ds]

\* the rows Papa.parse yields for the three sample CSV strings
sampleDeals ==
    << Deal(Str("D001"), "Sunset Apartments", "2024-01-15", Num(48), Num(2400000),
            Num(300000), Num(3200000), Num(1800000), "Active", "Multifamily", "Austin"),
       Deal(Str("D002"), "Harbor View", "2024-03-20", Num(72), Num(4200000),
            Num(450000), Num(5500000), Num(3000000), "Active", "Multifamily", "Miami"),
       Deal(Str("D003"), "Green Valley", "2023-11-10", Num(36), Num(1800000),
            Num(200000), Num(2400000), Num(1300000), "Closed", "Multifamily", "Denver") >>

sampleUnits ==
    << Unit(Str("U001"), Str("D001"), Num(101), Num(1), Num(1), Num(650), Num(1200), Num(1300), "Occupied"),
       Unit(Str("U002"), Str("D001"), Num(102), Num(2), Num(2), Num(900), Num(1600), Num(1700), "Occupied"),
       Unit(Str("U003"), Str("D001"), Num(103), Num(1), Num(1), Num(650), Num(1200), Num(1300), "Vacant"),
       Unit(Str("U004"), Str("D002"), Num(201), Num(2), Num(1), Num(850), Num(1500), Num(1650), "Occupied"),
       Unit(Str("U005"), Str("D002"), Num(202), Num(3), Num(2), Num(1200), Num(2200), Num(2400), "Occupied"),
       Unit(Str("U006"), Str("D003"), Num(301), Num(1), Num(1), Num(600), Num(1100), Num(1250), "Occupied") >>

sampleFinancials ==
    << Financial(Str("F001"), Str("D001"), "2024-Q1", Num(57600), Num(18500), Num(39100), Num(8000), Num(22500)),
       Financial(Str("F002"), Str("D001"), "2024-Q2", Num(58200), Num(19000), Num(39200), Num(7500), Num(22500)),
       Financial(Str("F003"), Str("D002"), "2024-Q1", Num(108000), Num(35000), Num(73000), Num(15000), Num(37500)),
       Financial(Str("F004"), Str("D003"), "2023-Q4", Num(39600), Num(13500), Num(26100), Num(5000), Num(16250)) >>

(***************************************************************************)
(* Rows a user's CSV file may hold (the inputs of the import).             *)
(***************************************************************************)
\* deals.csv rows: two ordinary rows, a row with an empty deal_id cell and a
\* row whose deal_id cell is 0
DealRows ==
    { Deal(Str("D9"), "Oak Court", "2024-05-01", Num(10), Num(5), Num(1), Num(8), Num(3),
           "Closed", "Multifamily", "Austin"),
      Deal(Num(7), "Pine Row", "2024-06-01", Num(4), Num(2), Num(0), Num(0), Num(1),
           "Active", "Multifamily", "Miami"),
      Deal(Null, "No Id", "2024-06-02", Num(1), Num(1), Num(1), Num(1), Num(1),
           "Active", "Multifamily", "Austin"),
      Deal(Num(0), "Zero Id", "2024-06-03", Num(2), Num(1), Num(1), Num(2), Num(1),
           "Closed", "Multifamily", "Miami") }

\* units.csv rows: an ordinary row and a row of a file without unit_id column
UnitRows ==
    { Unit(Str("U9"), Str("D9"), Num(1), Num(2), Num(1), Num(700), Num(5), Num(6), "Vacant"),
      Unit(Undefined, Str("D9"), Num(2), Num(1), Num(1), Num(500), Num(4), Num(4), "Occupied") }

\* financials.csv rows: an ordinary row and a row with an empty financial_id
FinancialRows ==
    { Financial(Str("F9"), Str("D9"), "2024-Q2", Num(9), Num(4), Num(5), Num(1), Num(2)),
      Financial(Null, Str("D9"), "2024-Q1", Num(8), Num(4), Num(4), Num(1), Num(2)) }

\* all sequences over S of length at most n
SeqUpTo(S, n) == UNION { [1..k -> S] : k \in 0..n }

DealFiles == SeqUpTo(DealRows, MaxDeals)
UnitFiles == SeqUpTo(UnitRows, MaxUnits)
FinancialFiles == SeqUpTo(FinancialRows, MaxFinancials)

(***************************************************************************)
(* Record universes for the derivations checked as pure functions.         *)
(***************************************************************************)
DealUniverse ==
    { Deal(Str("A"), "Alpha", "2024-01-01", Num(2), Num(3), Num(1), Num(4), Num(1),
           "Active", "Multifamily", "Austin"),
      Deal(Str("B"), "Beta", "2024-01-02", Undefined, Num(2), Null, Num(0), Null,
           "Active", "Office", "Miami"),
      Deal(Str("D"), "Delta", "2024-01-04", Num(1), Num(5), Num(0), Num(6), Num(6),
           "Closed", "Office", "Austin") }

universeUnits ==
    << Unit(Str("UA"), Str("A"), Num(1), Num(2), Num(1), Num(700), Num(4), Num(5), "Occupied"),
       Unit(Str("UB"), Str("A"), Num(2), Num(1), Num(1), Num(500), Num(2), Num(2), "Vacant"),
       Unit(Str("UC"), Str("B"), Num(3), Num(1), Num(1), Num(500), Num(3), Num(2), "Occupied"),
       Unit(Str("UD"), Str("B"), Num(4), Undefined, Num(1), Num(400), Undefined, Num(3), "Occupied"),
       Unit(Str("UE"), Str("Z"), Num(5), Str("studio"), Num(1), Num(300), Num(1), Null, "Vacant") >>

UnitUniverse == { universeUnits[i] : i \in 1..Len(universeUnits) }

FinancialUniverse ==
    { Financial(Str("FA"), Str("A"), "2024-Q2", Num(6), Num(3), Num(3), Num(1), Num(1)),
      Financial(Str("FB"), Str("A"), "2024-Q1", Num(5), Num(3), Num(2), Num(0), Num(3)),
      Financial(Str("FC"), Str("B"), "2024-Q10", Num(2), Num(3), Num(-1), Num(1), Num(1)),
      Financial(Str("FD"), Str("Z"), "2024-Q1", Num(4), Null, Undefined, Null, Num(2)) }

(***************************************************************************)
(* lodash helpers, as the calls in App.jsx use them.                       *)
(***************************************************************************)
\* baseSum over the iteratee's values: undefined values are skipped, the
\* result stays undefined while nothing was added
RECURSIVE baseSumFrom(_, _, _)
baseSumFrom(values, i, result) ==
    IF i > Len(values) THEN result
    ELSE LET current == values[i]
         IN  IF current.t # "undefined"
             THEN baseSumFrom(values, i + 1,
                      IF result.t = "undefined" THEN current ELSE JsAdd(result, current))
             ELSE baseSumFrom(values, i + 1, result)

baseSum(values) == baseSumFrom(values, 1, Undefined)

\* _.sumBy(array, iteratee), given the iteratee's value for each element
sumBy(values) == IF Len(values) > 0 THEN baseSum(values) ELSE Num(0)

\* _.meanBy(array, iteratee), given the iteratee's value for each element
meanBy(values) == IF Len(values) > 0 THEN JsDiv(baseSum(values), Num(Len(values))) ELSE NaN

\* insertByPeriod placing a record before the records of the same period
RECURSIVE insertByPeriodUnstable(_, _)
insertByPeriodUnstable(sorted, f) ==
    IF sorted = <<>> THEN <<f>>
    ELSE IF ~StrGreater(f.period, Head(sorted).period)
         THEN <<f>> \o sorted
         ELSE <<Head(sorted)>> \o insertByPeriodUnstable(Tail(sorted), f)

\* _.orderBy(array, 'period'): ascending, stable (ties keep their order)
RECURSIVE insertByPeriod(_, _)
insertByPeriod(sorted, f) ==
    IF sorted = <<>> THEN <<f>>
    ELSE IF StrGreater(Head(sorted).period, f.period)
         THEN <<f>> \o sorted
         ELSE <<Head(sorted)>> \o insertByPeriod(Tail(sorted), f)

RECURSIVE orderByPeriodFrom(_, _, _)
orderByPeriodFrom(array, i, sorted) ==
    IF i > Len(array) THEN sorted
    ELSE orderByPeriodFrom(array, i + 1, insertByPeriod(sorted, array[i]))

orderByPeriod(array) == orderByPeriodFrom(array, 1, <<>>)

\* the property key an object stores a value under: String(value)
PropertyKey(v) ==
    CASE v.t = "undefined" -> Str("undefined")
      [] v.t = "null" -> Str("null")
      [] OTHER -> v

\* keys that are array indices ("0", "1", ...) are enumerated first, ascending
IsArrayIndex(k) == k.t = "number" /\ k.d = 1 /\ k.n >= 0

\* entryPosition of an object that enumerates every key in insertion order
entryPositionInsertionOrder(obj, key, i) == Len(obj) + 1

\* an object as the sequence of its [key, value] entries in enumeration order;
\* the position at which a new key enters it
RECURSIVE entryPosition(_, _, _)
entryPosition(obj, key, i) ==
    IF i > Len(obj) THEN i
    ELSE IF ~IsArrayIndex(key) THEN Len(obj) + 1
    ELSE IF ~IsArrayIndex(obj[i].key) \/ obj[i].key.n > key.n THEN i
    ELSE entryPosition(obj, key, i + 1)

\* objectPush assigning [value] to an existing key instead of pushing
objectPushOverwrite(obj, key, value) ==
    IF \E i \in 1..Len(obj) : obj[i].key = key
    THEN [i \in 1..Len(obj) |->
             IF obj[i].key = key
             THEN [obj[i] EXCEPT !.value = <<value>>]
             ELSE obj[i]]
    ELSE LET p == entryPosition(obj, key, 1)
         IN  SubSeq(obj, 1, p - 1) \o <<[key |-> key, value |-> <<value>>]>>
                 \o SubSeq(obj, p, Len(obj))

\* result[key].push(value), or result[key] = [value] for a new key
objectPush(obj, key, value) ==
    IF \E i \in 1..Len(obj) : obj[i].key = key
    THEN [i \in 1..Len(obj) |->
             IF obj[i].key = key
             THEN [obj[i] EXCEPT !.value = Append(obj[i].value, value)]
             ELSE obj[i]]
    ELSE LET p == entryPosition(obj, key, 1)
         IN  SubSeq(obj, 1, p - 1) \o <<[key |-> key, value |-> <<value>>]>>
                 \o SubSeq(obj, p, Len(obj))

\* _.groupBy(array, 'bedrooms')
RECURSIVE groupByBedroomsFrom(_, _, _)
groupByBedroomsFrom(array, i, obj) ==
    IF i > Len(array) THEN obj
    ELSE groupByBedroomsFrom(array, i + 1,
             objectPush(obj, PropertyKey(array[i].bedrooms), array[i]))

groupByBedrooms(array) == groupByBedroomsFrom(array, 1, <<>>)

(***************************************************************************)
(* The derivations of App.jsx.                                             *)
(***************************************************************************)
\* dealPasses comparing the location filter with the wrong attribute
dealPassesWrongAttribute(deal, f) ==
    IF f.status # "all" /\ deal.status # f.status THEN FALSE
    ELSE IF f.propertyType # "all" /\ deal.property_type # f.propertyType THEN FALSE
    ELSE IF f.location # "all" /\ deal.property_type # f.location THEN FALSE
    ELSE TRUE

\* the callback of deals.filter in filteredDeals
dealPasses(deal, f) ==
    IF f.status # "all" /\ deal.status # f.status THEN FALSE
    ELSE IF f.propertyType # "all" /\ deal.property_type # f.propertyType THEN FALSE
    ELSE IF f.location # "all" /\ deal.location # f.location THEN FALSE
    ELSE TRUE

\* filterDeals also dropping the first deal that passes
filterDealsSkippingFirst(ds, f) ==
    LET passing == SelectSeq(ds, LAMBDA deal : dealPasses(deal, f))
    IN  IF passing = <<>> THEN passing ELSE Tail(passing)

\* deals.filter(...) of filteredDeals
filterDeals(ds, f) == SelectSeq(ds, LAMBDA deal : dealPasses(deal, f))

filteredDeals == filterDeals(deals, filters)

\* occupancyRateOf without the units.length > 0 guard
occupancyRateOfUnguarded(us) ==
    LET occupiedUnits == Len(SelectSeq(us, LAMBDA u : u.occupancy_status = "Occupied"))
    IN  JsDiv(Num(occupiedUnits), Num(Len(us)))

\* occupiedUnits and occupancyRate of calculateKPIs
occupancyRateOf(us) ==
    LET occupiedUnits == Len(SelectSeq(us, LAMBDA u : u.occupancy_status = "Occupied"))
    IN  IF Len(us) > 0 THEN JsDiv(Num(occupiedUnits), Num(Len(us))) ELSE Num(0)

\* avgCapRateOf without the totalValue > 0 guard
avgCapRateOfUnguarded(totalValue, fs) ==
    LET totalNOI == OrZero(sumBy([i \in 1..Len(fs) |-> fs[i].noi]))
    IN  JsDiv(JsMulInt(totalNOI, 4), totalValue)

\* totalNOI and avgCapRate of calculateKPIs
avgCapRateOf(totalValue, fs) ==
    LET totalNOI == OrZero(sumBy([i \in 1..Len(fs) |-> fs[i].noi]))
    IN  IF JsGtZero(totalValue) THEN JsDiv(JsMulInt(totalNOI, 4), totalValue) ELSE Num(0)

\* calculateKPIs with the occupancy taken over the units of the given deals
calculateKPIsScopedUnits(ds, us, fs) ==
    LET totalDeals == Num(Len(ds))
        totalUnits == OrZero(sumBy([i \in 1..Len(ds) |-> ds[i].total_units]))
        totalValue == OrZero(sumBy([i \in 1..Len(ds) |-> ds[i].market_value]))
        totalEquity == sumBy([i \in 1..Len(ds) |->
                           JsSub(OrZero(ds[i].market_value), OrZero(ds[i].debt_amount))])
        own == SelectSeq(us, LAMBDA u : \E i \in 1..Len(ds) : ds[i].deal_id = u.deal_id)
    IN  [totalDeals |-> totalDeals, totalUnits |-> totalUnits, totalValue |-> totalValue,
         totalEquity |-> totalEquity, occupancyRate |-> occupancyRateOf(own),
         avgCapRate |-> avgCapRateOf(totalValue, fs)]

calculateKPIs(ds, us, fs) ==
    LET totalDeals == Num(Len(ds))
        totalUnits == OrZero(sumBy([i \in 1..Len(ds) |-> ds[i].total_units]))
        totalValue == OrZero(sumBy([i \in 1..Len(ds) |-> ds[i].market_value]))
        totalEquity == sumBy([i \in 1..Len(ds) |->
                           JsSub(OrZero(ds[i].market_value), OrZero(ds[i].debt_amount))])
    IN  [totalDeals |-> totalDeals, totalUnits |-> totalUnits, totalValue |-> totalValue,
         totalEquity |-> totalEquity, occupancyRate |-> occupancyRateOf(us),
         avgCapRate |-> avgCapRateOf(totalValue, fs)]

\* kpis computed over the whole deal collection
kpisUnfiltered == calculateKPIs(deals, units, financials)

kpis == calculateKPIs(filteredDeals, units, financials)

\* OverviewPage receives deals = filteredDeals, units, financials
portfolioDataOf(ds) ==
    [i \in 1..Len(ds) |->
        [name |-> ds[i].deal_name, value |-> ds[i].market_value,
         equity |-> JsSub(OrZero(ds[i].market_value), OrZero(ds[i].debt_amount))]]

portfolioData == portfolioDataOf(filteredDeals)

noiDataOf(fs) ==
    LET o == orderByPeriod(fs)
    IN  [i \in 1..Len(o) |->
            [period |-> o[i].period, noi |-> o[i].noi,
             cashFlow |-> JsSub(JsSub(o[i].noi, o[i].capex), o[i].debt_service)]]

noiData == noiDataOf(financials)

\* name stands for the template string `${bedrooms}BR`: the key it embeds
unitMixOf(us) ==
    LET g == groupByBedrooms(us)
    IN  [i \in 1..Len(g) |->
            [name |-> g[i].key, count |-> Len(g[i].value),
             avgRent |-> meanBy([k \in 1..Len(g[i].value) |-> g[i].value[k].current_rent])]]

unitMix == unitMixOf(units)

\* [...new Set(values)]: the distinct values in first-seen order
RECURSIVE distinctFrom(_, _, _)
distinctFrom(values, i, seen) ==
    IF i > Len(values) THEN seen
    ELSE distinctFrom(values, i + 1,
             IF \E k \in 1..Len(seen) : seen[k] = values[i]
             THEN seen ELSE Append(seen, values[i]))

\* statuses taken from the deals the active filter passes
statusesOfFilteredDeals ==
    <<"all">> \o distinctFrom([i \in 1..Len(filteredDeals) |-> filteredDeals[i].status], 1, <<>>)

\* the option lists of the three selects of Filters (deals = allDeals)
statuses == <<"all">> \o distinctFrom([i \in 1..Len(deals) |-> deals[i].status], 1, <<>>)
types == <<"all">> \o distinctFrom([i \in 1..Len(deals) |-> deals[i].property_type], 1, <<>>)
locations == <<"all">> \o distinctFrom([i \in 1..Len(deals) |-> deals[i].location], 1, <<>>)

Range(seq) == { seq[i] : i \in 1..Len(seq) }

\* selectedDeal?.deal_id
selectedDealId(sel) == IF sel = <<>> THEN Undefined ELSE sel[1].deal_id

\* a === b
StrictEquals(a, b) == a.t # "NaN" /\ a = b

\* rows.filter(r => r.deal_id === selectedDeal?.deal_id)
relatedOf(rows, sel) ==
    SelectSeq(rows, LAMBDA r : StrictEquals(r.deal_id, selectedDealId(sel)))

\* the units prop of DealDetailPage
detailUnits == relatedOf(units, selectedDeal)

\* detailFinancials passing every financial record
detailFinancialsUnscoped == financials

\* the financials prop of DealDetailPage
detailFinancials == relatedOf(financials, selectedDeal)

\* DealDetailPage without the units.length > 0 guard
DealDetailPageUnguardedOccupancy(deal, us, fs) ==
    LET totalNOI == OrZero(sumBy([i \in 1..Len(fs) |-> fs[i].noi]))
        occupiedUnits == Len(SelectSeq(us, LAMBDA u : u.occupancy_status = "Occupied"))
    IN  [totalCost |-> JsAdd(OrZero(deal.purchase_price), OrZero(deal.renovation_budget)),
         equity |-> JsSub(OrZero(deal.market_value), OrZero(deal.debt_amount)),
         ltv |-> IF JsGtZero(deal.market_value)
                 THEN JsDiv(deal.debt_amount, deal.market_value) ELSE Num(0),
         capRate |-> IF JsGtZero(deal.market_value)
                     THEN JsDiv(JsMulInt(totalNOI, 4), deal.market_value) ELSE Num(0),
         occupancyRate |-> JsDiv(Num(occupiedUnits), Num(Len(us)))]

\* the metrics DealDetailPage computes for a deal that is not null
DealDetailPage(deal, us, fs) ==
    LET totalNOI == OrZero(sumBy([i \in 1..Len(fs) |-> fs[i].noi]))
        occupiedUnits == Len(SelectSeq(us, LAMBDA u : u.occupancy_status = "Occupied"))
    IN  [totalCost |-> JsAdd(OrZero(deal.purchase_price), OrZero(deal.renovation_budget)),
         equity |-> JsSub(OrZero(deal.market_value), OrZero(deal.debt_amount)),
         ltv |-> IF JsGtZero(deal.market_value)
                 THEN JsDiv(deal.debt_amount, deal.market_value) ELSE Num(0),
         capRate |-> IF JsGtZero(deal.market_value)
                     THEN JsDiv(JsMulInt(totalNOI, 4), deal.market_value) ELSE Num(0),
         occupancyRate |-> IF Len(us) > 0
                           THEN JsDiv(Num(occupiedUnits), Num(Len(us))) ELSE Num(0)]

\* what the deal-detail page shows: <<>> for "No deal selected" (!deal),
\* else the metrics of selectedDeal over its related units and financials
dealDetail ==
    IF selectedDeal = <<>> THEN <<>>
    ELSE <<DealDetailPage(selectedDeal[1], detailUnits, detailFinancials)>>

(***************************************************************************)
(* State.  selectedDeal is <<>> for null and <<deal>> for a deal object;   *)
(* pending counts, per data type, the Papa.parse calls on a File whose     *)
(* complete callback has not run yet.                                      *)
(***************************************************************************)
\* "other" stands for any dataType string that is none of the three
DataTypes == {"deals", "units", "financials", "other"}

HeaderPages == {"overview", "pipeline", "data"}

NoPending == [dt \in DataTypes |-> 0]

RECURSIVE SumCounts(_, _)
SumCounts(f, S) ==
    IF S = {} THEN 0
    ELSE LET x == CHOOSE y \in S : TRUE IN f[x] + SumCounts(f, S \ {x})

PendingTotal == SumCounts(pending, DataTypes)

\* result.data.filter(r => r.deal_id) and its two siblings in loadSampleData
loadedDeals(rows) == SelectSeq(rows, LAMBDA r : Truthy(r.deal_id))
loadedUnits(rows) == SelectSeq(rows, LAMBDA r : Truthy(r.unit_id))
loadedFinancials(rows) == SelectSeq(rows, LAMBDA r : Truthy(r.financial_id))

\* cleanData of handleFileUpload's complete callback
rowKept(row, dataType) ==
    IF dataType = "deals" THEN Truthy(row.deal_id)
    ELSE IF dataType = "units" THEN Truthy(row.unit_id)
    ELSE IF dataType = "financials" THEN Truthy(row.financial_id)
    ELSE FALSE

cleanData(rows, dataType) == SelectSeq(rows, LAMBDA row : rowKept(row, dataType))

\* the useState initial values, then the mount effect's loadSampleData (the
\* three Papa.parse calls on strings complete synchronously)
Init ==
    /\ deals = loadedDeals(sampleDeals)
    /\ units = loadedUnits(sampleUnits)
    /\ financials = loadedFinancials(sampleFinancials)
    /\ filters = [status |-> "all", propertyType |-> "all", location |-> "all"]
    /\ currentPage = "overview"
    /\ selectedDeal = <<>>
    /\ pending = NoPending

\* "Reset to Sample Data" on the data page
loadSampleData ==
    /\ currentPage = "data"
    /\ deals' = loadedDeals(sampleDeals)
    /\ units' = loadedUnits(sampleUnits)
    /\ financials' = loadedFinancials(sampleFinancials)
    /\ UNCHANGED <<filters, currentPage, selectedDeal, pending>>

\* the three selects of Filters, rendered on the overview page
setFiltersStatus(v) ==
    /\ currentPage = "overview"
    /\ v \in Range(statuses)
    /\ filters' = [filters EXCEPT !.status = v]
    /\ UNCHANGED <<deals, units, financials, currentPage, selectedDeal, pending>>

setFiltersPropertyType(v) ==
    /\ currentPage = "overview"
    /\ v \in Range(types)
    /\ filters' = [filters EXCEPT !.propertyType = v]
    /\ UNCHANGED <<deals, units, financials, currentPage, selectedDeal, pending>>

setFiltersLocation(v) ==
    /\ currentPage = "overview"
    /\ v \in Range(locations)
    /\ filters' = [filters EXCEPT !.location = v]
    /\ UNCHANGED <<deals, units, financials, currentPage, selectedDeal, pending>>

\* a button of Header
setCurrentPage(page) ==
    /\ page \in HeaderPages
    /\ currentPage' = page
    /\ UNCHANGED <<deals, units, financials, filters, selectedDeal, pending>>

\* handleViewDetails without setSelectedDeal(deal)
handleViewDetailsPageOnly(deal) ==
    /\ currentPage = "pipeline"
    /\ deal \in Range(filteredDeals)
    /\ currentPage' = "deal-detail"
    /\ UNCHANGED <<deals, units, financials, filters, selectedDeal, pending>>

\* "View Details" on a row of PipelinePage (deals = filteredDeals)
handleViewDetails(deal) ==
    /\ currentPage = "pipeline"
    /\ deal \in Range(filteredDeals)
    /\ selectedDeal' = <<deal>>
    /\ currentPage' = "deal-detail"
    /\ UNCHANGED <<deals, units, financials, filters, pending>>

\* "Back to Pipeline" on DealDetailPage (with or without a deal)
backToPipeline ==
    /\ currentPage = "deal-detail"
    /\ currentPage' = "pipeline"
    /\ UNCHANGED <<deals, units, financials, filters, selectedDeal, pending>>

\* handleFileUpload(e, dataType) on the data page: returns when no file was
\* chosen, else starts Papa.parse on the File, which completes later
handleFileUpload(hasFile, dataType) ==
    /\ currentPage = "data"
    /\ IF ~hasFile
       THEN UNCHANGED pending
       ELSE /\ PendingTotal < MaxPending
            /\ pending' = [pending EXCEPT ![dataType] = @ + 1]
    /\ UNCHANGED <<deals, units, financials, filters, currentPage, selectedDeal>>

\* parseComplete appending the cleaned rows to the collection
parseCompleteMerging(dataType, rows) ==
    /\ pending[dataType] > 0
    /\ pending' = [pending EXCEPT ![dataType] = @ - 1]
    /\ deals' = IF dataType = "deals" THEN deals \o cleanData(rows, dataType) ELSE deals
    /\ units' = IF dataType = "units" THEN units \o cleanData(rows, dataType) ELSE units
    /\ financials' = IF dataType = "financials"
                     THEN financials \o cleanData(rows, dataType) ELSE financials
    /\ UNCHANGED <<filters, currentPage, selectedDeal>>

\* the complete callback of a pending parse; rows is result.data, the rows of
\* the file the user chose
parseComplete(dataType, rows) ==
    /\ pending[dataType] > 0
    /\ pending' = [pending EXCEPT ![dataType] = @ - 1]
    /\ deals' = IF dataType = "deals" THEN cleanData(rows, dataType) ELSE deals
    /\ units' = IF dataType = "units" THEN cleanData(rows, dataType) ELSE units
    /\ financials' = IF dataType = "financials" THEN cleanData(rows, dataType) ELSE financials
    /\ UNCHANGED <<filters, currentPage, selectedDeal>>

\* the files a user may choose for an upload control
FilesFor(dataType) ==
    IF dataType = "deals" THEN DealFiles
    ELSE IF dataType = "units" THEN UnitFiles
    ELSE IF dataType = "financials" THEN FinancialFiles
    ELSE DealFiles

Next ==
    \/ loadSampleData
    \/ \E v \in Range(statuses) : setFiltersStatus(v)
    \/ \E v \in Range(types) : setFiltersPropertyType(v)
    \/ \E v \in Range(locations) : setFiltersLocation(v)
    \/ \E page \in HeaderPages : setCurrentPage(page)
    \/ \E deal \in Range(filteredDeals) : handleViewDetails(deal)
    \/ backToPipeline
    \/ \E hasFile \in BOOLEAN, dataType \in DataTypes : handleFileUpload(hasFile, dataType)
    \/ \E dataType \in DataTypes : \E rows \in FilesFor(dataType) : parseComplete(dataType, rows)

Spec == Init /\ [][Next]_vars

(***************************************************************************)
(* The derivations as pure functions: the store is drawn from the record   *)
(* universes and the pages re-derive from it on every step.                *)
(***************************************************************************)
InitKpi ==
    /\ deals \in SeqUpTo(DealUniverse, MaxDeals)
    /\ financials \in SeqUpTo(FinancialUniverse, MaxFinancials)
    /\ units = universeUnits
    /\ filters = [status |-> "all", propertyType |-> "all", location |-> "all"]
    /\ currentPage = "overview"
    /\ selectedDeal = <<>>
    /\ pending = NoPending

NextKpi ==
    \/ \E v \in Range(statuses) : setFiltersStatus(v)
    \/ \E v \in Range(types) : setFiltersPropertyType(v)
    \/ \E v \in Range(locations) : setFiltersLocation(v)

SpecKpi == InitKpi /\ [][NextKpi]_vars

InitSeries ==
    /\ units \in SeqUpTo(UnitUniverse, MaxUnits)
    /\ financials \in SeqUpTo(FinancialUniverse, MaxFinancials)
    /\ deals = loadedDeals(sampleDeals)
    /\ filters = [status |-> "all", propertyType |-> "all", location |-> "all"]
    /\ currentPage = "overview"
    /\ selectedDeal = <<>>
    /\ pending = NoPending

NextSeries == \E page \in HeaderPages : setCurrentPage(page)

SpecSeries == InitSeries /\ [][NextSeries]_vars

\* the deals of the universe as one collection
RECURSIVE SeqOf(_)
SeqOf(S) ==
    IF S = {} THEN <<>>
    ELSE LET x == CHOOSE y \in S : TRUE IN <<x>> \o SeqOf(S \ {x})

universeDeals == SeqOf(DealUniverse)

\* the deal-detail derivations as pure functions: units and financials are
\* drawn from the universes, any deal of the pipeline may be opened
InitDetail ==
    /\ deals = universeDeals
    /\ units \in SeqUpTo(UnitUniverse, MaxDetailUnits)
    /\ financials \in SeqUpTo(FinancialUniverse, MaxFinancials)
    /\ filters = [status |-> "all", propertyType |-> "all", location |-> "all"]
    /\ currentPage = "pipeline"
    /\ selectedDeal = <<>>
    /\ pending = NoPending

NextDetail ==
    \/ \E deal \in Range(filteredDeals) : handleViewDetails(deal)
    \/ backToPipeline

SpecDetail == InitDetail /\ [][NextDetail]_vars

(***************************************************************************)
(* Properties.  The expected values below are written from the statements, *)
(* not with the operators that model the code.                             *)
(***************************************************************************)
\* a filter field accepts an attribute: the sentinel "all" or the same string
FieldAccepts(field, attribute) == field = "all" \/ field = attribute

Matches(deal, f) ==
    /\ FieldAccepts(f.status, deal.status)
    /\ FieldAccepts(f.propertyType, deal.property_type)
    /\ FieldAccepts(f.location, deal.location)

\* the positions of the store's deals that pass the active filter
PassingIdx == { i \in 1..Len(deals) : Matches(deals[i], filters) }

\* a numeric field as an integer, a missing one (absent or null) as 0
N0(v) == IF v.t = "number" THEN v.n ELSE 0

RECURSIVE SumOver(_, _)
SumOver(S, f) ==
    IF S = {} THEN 0
    ELSE LET x == CHOOSE y \in S : TRUE IN f[x] + SumOver(S \ {x}, f)

\* C1: a deal is kept in filteredDeals iff each of the three filter fields is
\* "all" or equal to the deal's status, property_type, location; the kept
\* deals keep their order, and nothing else decides
C1_FilterKeepsExactlyMatching ==
    LET kept == filteredDeals
        pass == PassingIdx
    IN  /\ Len(kept) = Cardinality(pass)
        /\ \A i \in pass : kept[Cardinality({ j \in pass : j <= i })] = deals[i]

\* C1 witness: under a selection with a non-"all" field one deal is kept and
\* another is dropped
C1_Witness ==
    /\ filters.status # "all"
    /\ filters.location # "all"
    /\ Len(deals) = 2
    /\ Len(filteredDeals) = 1
    /\ Matches(deals[2], filters)
    /\ ~Matches(deals[1], filters)

\* C2: the deal KPIs are computed over exactly the passing deals: totalDeals
\* is their number, totalUnits the sum of total_units, totalValue the sum of
\* market_value, totalEquity = totalValue - sum of debt_amount
C2_KpisOverPassingDeals ==
    LET tu == SumOver(PassingIdx, [i \in 1..Len(deals) |-> N0(deals[i].total_units)])
        tv == SumOver(PassingIdx, [i \in 1..Len(deals) |-> N0(deals[i].market_value)])
        td == SumOver(PassingIdx, [i \in 1..Len(deals) |-> N0(deals[i].debt_amount)])
        k == kpis
    IN  /\ k.totalDeals = Num(Cardinality(PassingIdx))
        /\ k.totalUnits = Num(tu)
        /\ k.totalValue = Num(tv)
        /\ k.totalEquity = Num(tv - td)

\* C2 witness: a filter that drops a deal with units, value and debt and keeps
\* another one, so the KPIs differ from those of the whole collection
C2_Witness ==
    /\ filters.status # "all"
    /\ Cardinality(PassingIdx) = 1
    /\ Len(deals) = 2
    /\ \A i \in 1..Len(deals) :
          /\ deals[i].total_units.t = "number" /\ deals[i].total_units.n > 0
          /\ deals[i].market_value.t = "number" /\ deals[i].market_value.n > 0
          /\ deals[i].debt_amount.t = "number" /\ deals[i].debt_amount.n > 0
    /\ kpis.totalEquity.t = "number"
    /\ kpis.totalValue.n > kpis.totalEquity.n

\* C4: avgCapRate is 0 when the totalValue of the passing deals is 0; else it
\* is 4 * (sum of noi over ALL financial records) / totalValue; it is always
\* a number
C4_AvgCapRate ==
    LET tv == SumOver(PassingIdx, [i \in 1..Len(deals) |-> N0(deals[i].market_value)])
        noiSum == SumOver(1..Len(financials), [i \in 1..Len(financials) |-> N0(financials[i].noi)])
        r == kpis.avgCapRate
    IN  /\ r.t = "number"
        /\ IF tv = 0 THEN r.n = 0
           ELSE r.n * tv = 4 * noiSum * r.d

\* C4 witness: the passing deals have value, and a financial record with a
\* non-zero noi belongs to a deal the filter drops
C4_Witness ==
    /\ kpis.totalValue.n > 0
    /\ kpis.avgCapRate.n # 0
    /\ \E i \in 1..Len(financials), j \in 1..Len(deals) :
          /\ financials[i].deal_id = deals[j].deal_id
          /\ N0(financials[i].noi) # 0
          /\ j \notin PassingIdx

\* C5: a change of the filter selection leaves the portfolio occupancyRate,
\* the NOI/cash-flow series and the unit-mix series as they were
C5_FilterLeavesUnitAndFinancialSeries ==
    [][ filters' # filters =>
            /\ calculateKPIs(filterDeals(deals', filters'), units', financials').occupancyRate
                   = kpis.occupancyRate
            /\ noiDataOf(financials') = noiData
            /\ unitMixOf(units') = unitMix ]_vars

\* C5 witness: a filter is active that drops a deal owning units and periods
C5_Witness ==
    /\ filters.status # "all"
    /\ \E j \in 1..Len(deals) :
          /\ j \notin PassingIdx
          /\ \E i \in 1..Len(units) : units[i].deal_id = deals[j].deal_id
          /\ \E i \in 1..Len(financials) : financials[i].deal_id = deals[j].deal_id
    /\ kpis.occupancyRate.n > 0

\* the number of units whose occupancy_status is "Occupied"
OccupiedCount == Cardinality({ i \in 1..Len(units) : units[i].occupancy_status = "Occupied" })

\* a value is a number of the interval [0, 1]
InUnitInterval(r) == r.t = "number" /\ 0 <= r.n /\ r.n <= r.d

\* C3 as stated: occupancyRate lies in [0, 1] and is 0 exactly when the unit
\* sequence is empty
C3_ZeroExactlyWhenEmpty ==
    LET r == kpis.occupancyRate
    IN  /\ InUnitInterval(r)
        /\ (r.n = 0 <=> units = <<>>)

\* C3 amended: occupancyRate lies in [0, 1] and is 0 exactly when no unit is
\* "Occupied" (an empty unit sequence included); else it is the occupied share
C3_ZeroExactlyWhenNoneOccupied ==
    LET r == kpis.occupancyRate
    IN  /\ InUnitInterval(r)
        /\ (r.n = 0 <=> OccupiedCount = 0)
        /\ r.n * Len(units) = OccupiedCount * r.d

\* C3 witness: units exist, none of them occupied, and the rate is 0
C3_Witness ==
    /\ Len(units) >= 2
    /\ OccupiedCount = 0
    /\ kpis.occupancyRate = Num(0)

\* record j comes before record i in the series: a smaller period label, or
\* the same label and an earlier place in the store
PeriodBefore(j, i) ==
    \/ LexLess(CodeUnits(financials[j].period), CodeUnits(financials[i].period))
    \/ financials[j].period = financials[i].period /\ j < i

\* the place of store record i in the series
SeriesPlace(i) == 1 + Cardinality({ j \in 1..Len(financials) : PeriodBefore(j, i) })

IsNumber(v) == v.t = "number"

\* C6: the NOI/cash-flow series is a permutation of all financial records in
\* ascending lexicographic order of the period label, records of one period in
\* store order; an entry has the record's period, its noi, and
\* cashFlow = noi - capex - debt_service
C6_NoiSeriesSortedPermutation ==
    LET series == noiData
    IN  /\ Len(series) = Len(financials)
        /\ \A i \in 1..Len(financials) :
              LET e == series[SeriesPlace(i)]
                  f == financials[i]
              IN  /\ e.period = f.period
                  /\ e.noi = f.noi
                  /\ (IsNumber(f.noi) /\ IsNumber(f.capex) /\ IsNumber(f.debt_service)
                        => e.cashFlow = Num(f.noi.n - f.capex.n - f.debt_service.n))

\* C6 witness: the store holds a later period before an earlier one, and the
\* series starts with the earlier one
C6_Witness ==
    /\ Len(financials) = 2
    /\ financials[1].period = "2024-Q2"
    /\ financials[2].period = "2024-Q10"
    /\ noiData[1].period = "2024-Q10"
    /\ noiData[1].cashFlow = Num(-3)

\* the first unit whose bedroom count is the key of a group
FirstSeen(key) ==
    CHOOSE i \in 1..Len(units) :
        /\ PropertyKey(units[i].bedrooms) = key
        /\ \A j \in 1..(i - 1) : PropertyKey(units[j].bedrooms) # key

\* C7 as stated: the groups of the unit-mix series appear in the order in
\* which their bedroom count first appears in the unit sequence
C7_GroupsInFirstSeenOrder ==
    LET mix == unitMix
    IN  \A k, l \in 1..Len(mix) : k < l => FirstSeen(mix[k].name) < FirstSeen(mix[l].name)

\* a bedroom count that is a non-negative whole number
WholeNumber(v) == v.t = "number" /\ v.d = 1 /\ v.n >= 0

\* C7 amended: the groups whose bedroom count is a non-negative whole number
\* come first, in ascending numeric order; the groups of any other bedroom
\* value (missing, text) follow, in first-seen order
C7_WholeNumbersAscendingThenFirstSeen ==
    LET mix == unitMix
    IN  \A k, l \in 1..Len(mix) :
            k < l =>
                LET a == mix[k].name
                    b == mix[l].name
                IN  IF WholeNumber(a) /\ WholeNumber(b) THEN a.n < b.n
                    ELSE IF WholeNumber(a) THEN TRUE
                    ELSE IF WholeNumber(b) THEN FALSE
                    ELSE FirstSeen(a) < FirstSeen(b)

\* C7 witness: a 2-bedroom unit precedes a 1-bedroom unit in the store and a
\* unit without bedroom count precedes both; the series lists 1, 2, undefined
C7_Witness ==
    /\ Len(units) = 3
    /\ units[1].bedrooms = Undefined
    /\ units[2].bedrooms = Num(2)
    /\ units[3].bedrooms = Num(1)
    /\ [k \in 1..Len(unitMix) |-> unitMix[k].name] = <<Num(1), Num(2), Str("undefined")>>

\* C8: the unit-mix series has exactly one group per distinct bedroom count,
\* each unit is counted in exactly one group, and the counts sum to |U|
C8_UnitMixPartitionsUnits ==
    LET keys == { PropertyKey(units[i].bedrooms) : i \in 1..Len(units) }
        mix == unitMix
    IN  /\ Len(mix) = Cardinality(keys)
        /\ { mix[k].name : k \in 1..Len(mix) } = keys
        /\ \A k \in 1..Len(mix) :
              mix[k].count =
                  Cardinality({ i \in 1..Len(units) :
                                    PropertyKey(units[i].bedrooms) = mix[k].name })
        /\ SumOver(1..Len(mix), [k \in 1..Len(mix) |-> mix[k].count]) = Len(units)

\* C8 witness: three units, two of one bedroom count, in two groups
C8_Witness ==
    /\ Len(units) = 3
    /\ Len(unitMix) = 2
    /\ \E k \in 1..Len(unitMix) : unitMix[k].count = 2
    /\ units[1].bedrooms # units[2].bedrooms
    /\ units[1].bedrooms = units[3].bedrooms

\* a key cell that is there: neither a missing column nor an empty cell
KeyPresent(v) == v.t # "undefined" /\ v.t # "null"

DealsWithKey(rows) == SelectSeq(rows, LAMBDA r : KeyPresent(r.deal_id))
UnitsWithKey(rows) == SelectSeq(rows, LAMBDA r : KeyPresent(r.unit_id))
FinancialsWithKey(rows) == SelectSeq(rows, LAMBDA r : KeyPresent(r.financial_id))

\* C9: every record of the store has its identifying key, and an import
\* stores exactly the parsed rows that have the key: a row without it never
\* enters, every row with it does
C9_StoreHoldsExactlyKeyedRows ==
    [][ /\ \A i \in 1..Len(deals') : KeyPresent(deals'[i].deal_id)
        /\ \A i \in 1..Len(units') : KeyPresent(units'[i].unit_id)
        /\ \A i \in 1..Len(financials') : KeyPresent(financials'[i].financial_id)
        /\ \A rows \in DealFiles :
              parseComplete("deals", rows) => deals' = DealsWithKey(rows)
        /\ \A rows \in UnitFiles :
              parseComplete("units", rows) => units' = UnitsWithKey(rows)
        /\ \A rows \in FinancialFiles :
              parseComplete("financials", rows) => financials' = FinancialsWithKey(rows)
        /\ loadSampleData =>
              /\ deals' = DealsWithKey(sampleDeals)
              /\ units' = UnitsWithKey(sampleUnits)
              /\ financials' = FinancialsWithKey(sampleFinancials) ]_vars

\* the rows an import keeps of a file: those whose key cell is truthy
KeptDeals(rows) == SelectSeq(rows, LAMBDA r : Truthy(r.deal_id))
KeptUnits(rows) == SelectSeq(rows, LAMBDA r : Truthy(r.unit_id))
KeptFinancials(rows) == SelectSeq(rows, LAMBDA r : Truthy(r.financial_id))

\* C10: the completion of an import of one data type sets that collection to
\* the cleaned rows of the file alone and leaves the other two collections,
\* the filter, the page and the selected deal as they were; an import of an
\* unrecognised type, or an upload without file, changes none of them (a
\* collection changes only by an import of its type or by the sample reset)
C10_ImportReplacesOneCollection ==
    [][ /\ \A dt \in DataTypes :
              pending'[dt] < pending[dt] =>
                  /\ filters' = filters
                  /\ currentPage' = currentPage
                  /\ selectedDeal' = selectedDeal
                  /\ dt = "deals" =>
                        /\ deals' \in { KeptDeals(rows) : rows \in DealFiles }
                        /\ units' = units /\ financials' = financials
                  /\ dt = "units" =>
                        /\ units' \in { KeptUnits(rows) : rows \in UnitFiles }
                        /\ deals' = deals /\ financials' = financials
                  /\ dt = "financials" =>
                        /\ financials' \in { KeptFinancials(rows) : rows \in FinancialFiles }
                        /\ deals' = deals /\ units' = units
                  /\ dt = "other" =>
                        deals' = deals /\ units' = units /\ financials' = financials
        /\ deals' # deals =>
              \/ pending'["deals"] < pending["deals"]
              \/ currentPage = "data" /\ deals' = sampleDeals
        /\ units' # units =>
              \/ pending'["units"] < pending["units"]
              \/ currentPage = "data" /\ units' = sampleUnits
        /\ financials' # financials =>
              \/ pending'["financials"] < pending["financials"]
              \/ currentPage = "data" /\ financials' = sampleFinancials ]_vars

\* C10 witness: a deals import has completed while a filter was active and
\* the deal-detail page showed a deal: the deals are the file's, the rest is
\* as before
C10_Witness ==
    /\ Len(deals) = 2
    /\ \A i \in 1..Len(deals) : deals[i] \in DealRows
    /\ units = sampleUnits
    /\ financials = sampleFinancials
    /\ filters.status = "Active"
    /\ currentPage = "deal-detail"
    /\ selectedDeal # <<>>
    /\ pending = NoPending

(***************************************************************************)
(* Filter choices (C11).                                                   *)
(***************************************************************************)
\* the position at which value v first occurs in the sequence values
FirstIndexOf(values, v) ==
    CHOOSE i \in 1..Len(values) : values[i] = v /\ \A k \in 1..(i - 1) : values[k] # v

\* options is "all" followed by each distinct value of values, once each, in
\* first-seen order
AllThenFirstSeen(options, values) ==
    /\ Len(options) >= 1
    /\ options[1] = "all"
    /\ { options[i] : i \in 2..Len(options) } = { values[i] : i \in 1..Len(values) }
    /\ \A i, j \in 2..Len(options) :
          i < j => /\ options[i] # options[j]
                   /\ FirstIndexOf(values, options[i]) < FirstIndexOf(values, options[j])

\* C11: for status, property type and location the list of filter choices is
\* "all" followed by each distinct value of that attribute across the whole
\* unfiltered deal collection, once each, in first-seen order; it is that
\* function of the deal collection under every active filter selection.
C11_ChoicesFromUnfilteredDeals ==
    /\ AllThenFirstSeen(statuses, [i \in 1..Len(deals) |-> deals[i].status])
    /\ AllThenFirstSeen(types, [i \in 1..Len(deals) |-> deals[i].property_type])
    /\ AllThenFirstSeen(locations, [i \in 1..Len(deals) |-> deals[i].location])

\* C11 witness: an active status filter hides a deal whose status is still
\* offered, the statuses are listed in first-seen (not alphabetical) order,
\* and a location shared by two deals is offered once
C11_Witness ==
    /\ Len(deals) = 2
    /\ filters.status = "Closed"
    /\ Len(filteredDeals) = 1
    /\ statuses = <<"all", "Closed", "Active">>
    /\ locations = <<"all", "Austin">>

(***************************************************************************)
(* Algebra of the filter (C15).                                            *)
(***************************************************************************)
\* the elements of seq at the positions S, in the order of seq
AtPositions(seq, S) ==
    [k \in 1..Cardinality(S) |->
        seq[CHOOSE i \in S : Cardinality({ j \in S : j <= i }) = k]]

\* sub is seq with some elements left out, the others in their order
IsSubsequence(sub, seq) ==
    \E S \in SUBSET (1..Len(seq)) : AtPositions(seq, S) = sub

\* C15: filtering is idempotent (the selection applied to its own result
\* yields the same list), the filtered list is an order-preserving
\* subsequence of the deal collection, and with status, propertyType and
\* location all "all" the filtered list equals the deal collection.
C15_FilterIdempotentAllIsIdentity ==
    /\ filterDeals(filteredDeals, filters) = filteredDeals
    /\ IsSubsequence(filteredDeals, deals)
    /\ (filters.status = "all" /\ filters.propertyType = "all" /\ filters.location = "all")
          => filteredDeals = deals

\* C15 witness: a selection that is not all "all" passes one deal of two
C15_Witness ==
    /\ Len(deals) = 2
    /\ deals[1] # deals[2]
    /\ filters.propertyType = "Office"
    /\ filters.location = "all"
    /\ Len(filteredDeals) = 1
    /\ filteredDeals[1] = deals[2]

(***************************************************************************)
(* The deal-detail page (C12, C13).                                        *)
(***************************************************************************)
\* the store positions of the financial records / units whose deal_id is id
FinancialsOfDeal(id) == { i \in 1..Len(financials) : financials[i].deal_id = id }
UnitsOfDeal(id) == { i \in 1..Len(units) : units[i].deal_id = id }

\* the number r equals the quotient a / b of two integers, b # 0
IsQuotient(r, a, b) == r.t = "number" /\ r.n * b = a * r.d

\* C12: for the deal shown on the deal-detail page, ltv = debt_amount /
\* market_value if market_value > 0 and 0 otherwise; capRate = 4 * (sum of noi
\* over the financial records of this deal, and only those) / market_value if
\* market_value > 0 and 0 otherwise; totalCost = purchase_price +
\* renovation_budget; equity = market_value - debt_amount.
C12_DealDetailMetrics ==
    (currentPage = "deal-detail" /\ selectedDeal # <<>>) =>
        LET d == selectedDeal[1]
            m == dealDetail[1]
            own == FinancialsOfDeal(d.deal_id)
            noiSum == SumOver(own, [i \in 1..Len(financials) |-> N0(financials[i].noi)])
            mv == d.market_value
        IN  /\ (IsNumber(mv) /\ mv.n > 0 /\ IsNumber(d.debt_amount))
                  => IsQuotient(m.ltv, d.debt_amount.n, mv.n)
            /\ (IsNumber(mv) /\ mv.n <= 0) => (m.ltv = Num(0) /\ m.capRate = Num(0))
            /\ (IsNumber(mv) /\ mv.n > 0 /\ \A i \in own : IsNumber(financials[i].noi))
                  => IsQuotient(m.capRate, 4 * noiSum, mv.n)
            /\ (IsNumber(d.purchase_price) /\ IsNumber(d.renovation_budget))
                  => m.totalCost = Num(d.purchase_price.n + d.renovation_budget.n)
            /\ (IsNumber(mv) /\ IsNumber(d.debt_amount))
                  => m.equity = Num(mv.n - d.debt_amount.n)

\* C12 witness: the page shows a deal with a positive market value, a debt and
\* a financial record of its own, while the store also holds a financial
\* record of another deal with a noi that is not 0
C12_Witness ==
    /\ currentPage = "deal-detail"
    /\ selectedDeal # <<>>
    /\ selectedDeal[1].market_value.n > 0
    /\ selectedDeal[1].debt_amount.t = "number"
    /\ dealDetail[1].ltv.n # 0
    /\ dealDetail[1].capRate.n # 0
    /\ \E i \in 1..Len(financials) :
          /\ financials[i].deal_id # selectedDeal[1].deal_id
          /\ N0(financials[i].noi) # 0

\* the deal_ids of the deal collection
DealIds == { deals[j].deal_id : j \in 1..Len(deals) }

\* C13: the units and financial records related to a deal are exactly the
\* store records whose deal_id equals the deal's deal_id; a unit or record
\* whose deal_id matches no deal is related to no deal; a deal with no
\* related units has per-deal occupancyRate 0, any other deal the number of
\* its occupied related units divided by the number of its related units.
C13_RelatedByDealId ==
    /\ \A j \in 1..Len(deals) :
          LET d == deals[j]
              us == relatedOf(units, <<d>>)
              fs == relatedOf(financials, <<d>>)
              own == UnitsOfDeal(d.deal_id)
              occupied == { i \in own : units[i].occupancy_status = "Occupied" }
              rate == DealDetailPage(d, us, fs).occupancyRate
          IN  /\ us = AtPositions(units, own)
              /\ fs = AtPositions(financials, FinancialsOfDeal(d.deal_id))
              /\ \A i \in 1..Len(units) :
                    units[i].deal_id \notin DealIds => units[i] \notin Range(us)
              /\ \A i \in 1..Len(financials) :
                    financials[i].deal_id \notin DealIds => financials[i] \notin Range(fs)
              /\ IF own = {} THEN rate = Num(0)
                 ELSE IsQuotient(rate, Cardinality(occupied), Cardinality(own))
    /\ (currentPage = "deal-detail" /\ selectedDeal # <<>>) =>
          /\ detailUnits = AtPositions(units, UnitsOfDeal(selectedDeal[1].deal_id))
          /\ detailFinancials = AtPositions(financials, FinancialsOfDeal(selectedDeal[1].deal_id))
          /\ dealDetail[1].occupancyRate =
                DealDetailPage(selectedDeal[1], detailUnits, detailFinancials).occupancyRate

\* C13 witness: the page shows a deal without units while the store holds a
\* unit of another deal and a unit and a financial record of no deal
C13_Witness ==
    /\ currentPage = "deal-detail"
    /\ selectedDeal # <<>>
    /\ detailUnits = <<>>
    /\ dealDetail[1].occupancyRate = Num(0)
    /\ \E i, k \in 1..Len(units) :
          /\ units[i].deal_id \notin DealIds
          /\ units[k].deal_id \in DealIds
          /\ units[k].occupancy_status = "Occupied"
    /\ \E i \in 1..Len(financials) : financials[i].deal_id \notin DealIds

(***************************************************************************)
(* Missing numeric fields (C14).                                           *)
(***************************************************************************)
\* a field that is missing (absent or null) replaced by 0
ZeroFill(v) == IF v.t \in {"undefined", "null"} THEN Num(0) ELSE v

ZeroFilledDeals(ds) ==
    [i \in 1..Len(ds) |->
        [ds[i] EXCEPT !.total_units = ZeroFill(@), !.purchase_price = ZeroFill(@),
                      !.renovation_budget = ZeroFill(@), !.market_value = ZeroFill(@),
                      !.debt_amount = ZeroFill(@)]]

\* bedrooms is the grouping key of the unit mix and is left as it is
ZeroFilledUnits(us) ==
    [i \in 1..Len(us) |->
        [us[i] EXCEPT !.current_rent = ZeroFill(@), !.market_rent = ZeroFill(@)]]

ZeroFilledFinancials(fs) ==
    [i \in 1..Len(fs) |->
        [fs[i] EXCEPT !.gross_rent = ZeroFill(@), !.operating_expenses = ZeroFill(@),
                      !.noi = ZeroFill(@), !.capex = ZeroFill(@),
                      !.debt_service = ZeroFill(@)]]

\* every field of the record r named in names is a number
AllNumbers(r, names) == \A f \in names : IsNumber(r[f])

\* the six KPIs are numbers and those of the zero-filled store
KpisCountMissingAsZero ==
    LET k == kpis
    IN  /\ AllNumbers(k, {"totalDeals", "totalUnits", "totalValue", "totalEquity",
                          "occupancyRate", "avgCapRate"})
        /\ k = calculateKPIs(filterDeals(ZeroFilledDeals(deals), filters),
                             ZeroFilledUnits(units), ZeroFilledFinancials(financials))

\* value and equity of the portfolio series
PortfolioCountsMissingAsZero ==
    LET p == portfolioData
    IN  /\ \A i \in 1..Len(p) : AllNumbers(p[i], {"value", "equity"})
        /\ p = portfolioDataOf(filterDeals(ZeroFilledDeals(deals), filters))

\* noi and cashFlow of the NOI series
NoiSeriesCountsMissingAsZero ==
    LET n == noiData
    IN  /\ \A i \in 1..Len(n) : AllNumbers(n[i], {"noi", "cashFlow"})
        /\ n = noiDataOf(ZeroFilledFinancials(financials))

\* avgRent of the unit-mix series
UnitMixCountsMissingAsZero ==
    LET u == unitMix
    IN  /\ \A i \in 1..Len(u) : IsNumber(u[i].avgRent)
        /\ u = unitMixOf(ZeroFilledUnits(units))

\* totalCost, equity, ltv and capRate of every deal
DealMetricsCountMissingAsZero ==
    \A j \in 1..Len(deals) :
        LET m == DealDetailPage(deals[j], relatedOf(units, <<deals[j]>>),
                                relatedOf(financials, <<deals[j]>>))
            z == DealDetailPage(ZeroFilledDeals(deals)[j],
                                relatedOf(ZeroFilledUnits(units), <<deals[j]>>),
                                relatedOf(ZeroFilledFinancials(financials), <<deals[j]>>))
        IN  /\ AllNumbers(m, {"totalCost", "equity", "ltv", "capRate"})
            /\ m.totalCost = z.totalCost /\ m.equity = z.equity
            /\ m.ltv = z.ltv /\ m.capRate = z.capRate

\* C14: with numeric fields missing (absent or null) every engine output --
\* the six KPIs, the portfolio series value and equity, the NOI-series noi and
\* cashFlow, the unit-mix avgRent, the per-deal totalCost, equity, ltv and
\* capRate -- is a defined number, the one obtained with 0 for the field.
C14_MissingFieldsCountAsZero ==
    /\ KpisCountMissingAsZero
    /\ PortfolioCountsMissingAsZero
    /\ NoiSeriesCountsMissingAsZero
    /\ UnitMixCountsMissingAsZero
    /\ DealMetricsCountMissingAsZero

(***************************************************************************)
(* Navigation, selection and imports (C16, C17, C18).                      *)
(***************************************************************************)
\* C16: whenever the current page is the deal-detail page, the deal it
\* displays is a record of the current deals collection.
C16_ShownDealIsInStore ==
    (currentPage = "deal-detail" /\ selectedDeal # <<>>) =>
        selectedDeal[1] \in Range(deals)

\* C17: each field of the active filter is "all" or a value that occurs for
\* that attribute in the current deal collection (one of the offered choices).
C17_FilterValuesAreOffered ==
    /\ filters.status \in Range(statuses)
    /\ filters.propertyType \in Range(types)
    /\ filters.location \in Range(locations)

Pages == {"overview", "pipeline", "deal-detail", "data"}

\* C18: the current page is one of overview, pipeline, deal-detail, data, and
\* whenever it is deal-detail a deal is selected; the deal-detail page is
\* entered only from the pipeline by View Details, which sets the selected
\* deal (a deal of the pipeline) in the same step, and a selection is never
\* cleared afterwards.
C18_DetailPageHasSelectedDeal ==
    /\ currentPage \in Pages
    /\ (currentPage = "deal-detail" => selectedDeal # <<>>)
    /\ [][ /\ currentPage' \in Pages
           /\ (currentPage' = "deal-detail" => selectedDeal' # <<>>)
           /\ (currentPage # "deal-detail" /\ currentPage' = "deal-detail") =>
                 /\ currentPage = "pipeline"
                 /\ \E d \in Range(filteredDeals) : selectedDeal' = <<d>>
           /\ (selectedDeal # <<>> => selectedDeal' # <<>>) ]_vars

\* C18 witness: View Details has opened the deal-detail page on a deal, and
\* the selection is still there after leaving the page through the header
C18_Witness ==
    /\ currentPage = "data"
    /\ selectedDeal # <<>>
    /\ selectedDeal[1] \in Range(deals)

====
